---- MODULE Spec2Model ----
(***************************************************************************)
(* Model of yolort/models/yolo_module.py: the YOLOModule wrapper, its      *)
(* mode dispatch (_forward_impl / eager_outputs), the Lightning step       *)
(* callbacks built on it, predict, and the data_pipeline property.         *)
(*                                                                         *)
(* Python values are modelled as records with a "kind" field, so that a    *)
(* dict of losses, a list of detections, a (losses, detections) tuple, a   *)
(* raised exception and None can be held by the same variable, as they can *)
(* in the dynamically typed source.                                        *)
(***************************************************************************)
EXTENDS Integers, Sequences, FiniteSets

\* ------------------------------------------------------------------ bounds
MaxImages == 2
MaxAccum == 2

\* ------------------------------------------------- constructor defaults
min_size == 320
max_size == 416

\* ------------------------------------------------------- python values
None == [kind |-> "None"]
Raise(e) == [kind |-> "error", err |-> e]
Dict(l) == [kind |-> "losses", losses |-> l]
List(d) == [kind |-> "detections", dets |-> d]
Tuple2(l, d) == [kind |-> "tuple", losses |-> l, dets |-> d]
Targets(t) == [kind |-> "targets", val |-> t]

Min(a, b) == IF a <= b THEN a ELSE b
Max(a, b) == IF a >= b THEN a ELSE b

RECURSIVE SumSeq(_)
SumSeq(s) == IF s = <<>> THEN 0 ELSE Head(s) + SumSeq(Tail(s))

\* ------------------------------------------------------------- inputs
\* An image is a tensor, known here by its shape (channels, height, width).
ImageSizes == {<<480, 640>>, <<300, 300>>}
Image(h, w) == [shape |-> <<3, h, w>>]
Images == {Image(s[1], s[2]) : s \in ImageSizes}
ImageLists == UNION {[1..n -> Images] : n \in 1..MaxImages}

\* Ground truth of one image: boxes (x1, y1, x2, y2) in original coordinates.
TargetChoices == {[boxes |-> << <<0, 0, 300, 300>> >>]}
TargetLists(n) == [1..n -> TargetChoices]

\* What the opaque detector may produce for one image (boxes in resized
\* coordinates) and as a loss mapping (a set of <<name, value>> pairs).
RawChoices == {[boxes |-> <<>>], [boxes |-> << <<0, 0, 208, 208>> >>]}
LossChoices == {{<<"cls_logits", 1>>, <<"bbox_regression", 2>>},
                {<<"cls_logits", 2>>, <<"bbox_regression", 2>>, <<"objectness", 1>>}}

Pipelines == {[kind |-> "pipeline", id |-> "P1"], [kind |-> "pipeline", id |-> "P2"]}
DefaultPipeline(n) == [kind |-> "pipeline", id |-> "default", n |-> n]

\* ---------------------------------------------------------- Transform
\* img.shape[-2:]
LastTwo(shape) == SubSeq(shape, Len(shape) - 1, Len(shape))

\* Size fed to the detector: aspect ratio kept, the scale being the smaller
\* of min_size / min(h, w) and max_size / max(h, w).
ResizedSize(h, w) ==
    LET lo == Min(h, w)
        hi == Max(h, w)
    IN  IF min_size * hi <= max_size * lo
        THEN <<(h * min_size) \div lo, (w * min_size) \div lo>>
        ELSE <<(h * max_size) \div hi, (w * max_size) \div hi>>

ValidImage(img) ==
    /\ Len(img.shape) = 3
    /\ \A k \in 1..3 : img.shape[k] > 0

\* transform(inputs, targets): the batch (its padded shape and the resized
\* size of every image) and the targets, untouched.
transform(inputs, targets) ==
    IF \E i \in 1..Len(inputs) : ~ValidImage(inputs[i])
    THEN Raise("InvalidImageError")
    ELSE LET sizes == [i \in 1..Len(inputs) |->
                          ResizedSize(inputs[i].shape[2], inputs[i].shape[3])]
             maxh == CHOOSE m \in {sizes[i][1] : i \in 1..Len(inputs)} :
                         \A i \in 1..Len(inputs) : sizes[i][1] <= m
             maxw == CHOOSE m \in {sizes[i][2] : i \in 1..Len(inputs)} :
                         \A i \in 1..Len(inputs) : sizes[i][2] <= m
         IN  [kind |-> "ok",
              samples |-> [tensors |-> <<Len(inputs), 3, maxh, maxw>>,
                           image_sizes |-> sizes],
              targets |-> targets]

\* One box scaled by original / resized, per axis.
resize_box(b, im_s, o_im_s) ==
    <<(b[1] * o_im_s[2]) \div im_s[2], (b[2] * o_im_s[1]) \div im_s[1],
      (b[3] * o_im_s[2]) \div im_s[2], (b[4] * o_im_s[1]) \div im_s[1]>>

\* transform.postprocess(result, image_sizes, original_image_sizes)
postprocess(result, image_sizes, original_image_sizes) ==
    IF result.kind # "detections"
    THEN Raise("TypeError")
    ELSE IF Len(result.dets) # Len(image_sizes)
            \/ Len(result.dets) # Len(original_image_sizes)
    THEN Raise("ShapeMismatchError")
    ELSE List([i \in 1..Len(result.dets) |->
                 [boxes |-> [k \in 1..Len(result.dets[i].boxes) |->
                                resize_box(result.dets[i].boxes[k], image_sizes[i],
                                           original_image_sizes[i])]]])

\* ------------------------------------------------------------ detector
HasTargets(targets) == targets.kind = "targets" /\ targets.val # <<>>

\* The outcomes the detector can choose between for a batch of n images.
DetectorPicks(t, n) ==
    IF t
    THEN {[loss |-> l, raw |-> <<>>, strict |-> s] : l \in LossChoices, s \in BOOLEAN}
    ELSE {[loss |-> {}, raw |-> r, strict |-> FALSE] : r \in [1..n -> RawChoices]}

\* self.model(samples.tensors, targets=targets): losses in training form,
\* per-image detections otherwise; a scripted detector returns the pair.
model(t, scripting, tensors, targets, pk) ==
    IF t /\ ~HasTargets(targets) /\ pk.strict
    THEN Raise("DetectorError")
    ELSE IF scripting
    THEN Tuple2(IF t THEN pk.loss ELSE {}, IF t THEN <<>> ELSE pk.raw)
    ELSE IF t THEN Dict(pk.loss) ELSE List(pk.raw)

\* ------------------------------------------------------- _forward_impl
\* Mutant of record_sizes: img.shape[:2] in place of img.shape[-2:].
record_sizes_leading(t, imgs) ==
    IF ~t THEN [i \in 1..Len(imgs) |-> SubSeq(imgs[i].shape, 1, 2)] ELSE <<>>

\* Lines 80-87: the original sizes, recorded only outside training mode.
record_sizes(t, imgs) ==
    IF ~t THEN [i \in 1..Len(imgs) |-> LastTwo(imgs[i].shape)] ELSE <<>>

\* Mutant of branch: the flag tested the wrong way round.
branch_inverted(t, s, outs, image_sizes, sizes) ==
    IF ~t
    THEN [losses |-> IF s THEN Dict(outs.losses) ELSE outs,
          detections |-> List(<<>>), raised |-> None, post |-> FALSE]
    ELSE LET d == postprocess(outs, image_sizes, sizes)
         IN  [losses |-> Dict({}),
              detections |-> IF d.kind = "error" THEN List(<<>>) ELSE d,
              raised |-> IF d.kind = "error" THEN d ELSE None, post |-> TRUE]

\* Mutant of branch: the detector's output handed on without the rescaling.
branch_raw(t, s, outs, image_sizes, sizes) ==
    IF t
    THEN [losses |-> IF s THEN Dict(outs.losses) ELSE outs,
          detections |-> List(<<>>), raised |-> None, post |-> FALSE]
    ELSE [losses |-> Dict({}), detections |-> outs, raised |-> None, post |-> TRUE]

\* Lines 94-105: the branch on self.training. "raised" is the exception of
\* postprocess, if any; losses and detections start as {} and [].
branch(t, s, outs, image_sizes, sizes) ==
    IF t
    THEN [losses |-> IF s THEN Dict(outs.losses) ELSE outs,
          detections |-> List(<<>>), raised |-> None, post |-> FALSE]
    ELSE LET d == postprocess(outs, image_sizes, sizes)
         IN  [losses |-> Dict({}),
              detections |-> IF d.kind = "error" THEN List(<<>>) ELSE d,
              raised |-> IF d.kind = "error" THEN d ELSE None, post |-> TRUE]

\* Mutant of eager_outputs: the losses returned in either mode.
eager_outputs_losses(t, l, d) == l

\* Lines 115-124.
eager_outputs(t, l, d) == IF t THEN l ELSE d

\* Lines 107-113.
return_value(t, s, l, d) == IF s THEN d ELSE eager_outputs(t, l, d)

\* One uninterrupted run of _forward_impl with the training flag at t, the
\* detector choosing pk.
_forward_impl(t, s, imgs, tgts, pk) ==
    LET sizes == record_sizes(t, imgs)
        tr == transform(imgs, tgts)
    IN  IF tr.kind = "error" THEN tr
        ELSE LET outs == model(t, s, tr.samples.tensors, tr.targets, pk)
             IN  IF outs.kind = "error" THEN outs
                 ELSE LET b == branch(t, s, outs, tr.samples.image_sizes, sizes)
                      IN  IF b.raised # None THEN b.raised
                          ELSE return_value(t, s, b.losses, b.detections)

\* ------------------------------------------------------------ _evaluate_iou
Area(b) == Max(b[3] - b[1], 0) * Max(b[4] - b[2], 0)
Inter(a, b) ==
    Max(Min(a[3], b[3]) - Max(a[1], b[1]), 0) * Max(Min(a[4], b[4]) - Max(a[2], b[2]), 0)
\* IoU in thousandths.
BoxIoU(a, b) ==
    LET u == Area(a) + Area(b) - Inter(a, b)
    IN  IF u = 0 THEN 0 ELSE (Inter(a, b) * 1000) \div u

BestIoU(g, boxes) ==
    IF boxes = <<>> THEN 0
    ELSE CHOOSE v \in {BoxIoU(g, boxes[k]) : k \in 1..Len(boxes)} :
             \A k \in 1..Len(boxes) : BoxIoU(g, boxes[k]) <= v

\* Mean best-match IoU of one image, 0 without ground-truth boxes.
_evaluate_iou(target, det) ==
    IF target.boxes = <<>> THEN 0
    ELSE SumSeq([k \in 1..Len(target.boxes) |-> BestIoU(target.boxes[k], det.boxes)])
             \div Len(target.boxes)

\* --------------------------------------------------------- step callbacks
\* Lines 142-144: sum(loss_dict.values()).
RECURSIVE SumValues(_)
SumValues(l) ==
    IF l = {} THEN 0
    ELSE LET e == CHOOSE e \in l : TRUE IN e[2] + SumValues(l \ {e})

training_step_result(loss_dict) ==
    IF loss_dict.kind = "error" THEN loss_dict
    ELSE IF loss_dict.kind = "losses" THEN [kind |-> "loss", value |-> SumValues(loss_dict.losses)]
    ELSE Raise("AttributeError")

\* Lines 150-153: zip pairs targets and predictions up to the shorter of
\* the two; torch.stack refuses an empty list.
validation_step_result(tgts, preds) ==
    IF preds.kind = "error" THEN preds
    ELSE LET n == IF preds.kind = "detections" THEN Min(Len(tgts), Len(preds.dets))
                  ELSE Min(Len(tgts), Cardinality(preds.losses))
         IN  IF n = 0 THEN Raise("RuntimeError")
             ELSE IF preds.kind # "detections" THEN Raise("TypeError")
             ELSE [kind |-> "outs",
                   val_iou |-> SumSeq([i \in 1..n |-> _evaluate_iou(tgts[i], preds.dets[i])])
                                   \div n]

\* ------------------------------------------------------------ evaluator
NewEvaluator == [kind |-> "COCOEvaluator", state |-> "open", pairs |-> 0]

\* self.evaluator(preds, targets)
accumulate(ev, preds, tgts) ==
    IF ev.state = "finalized"
    THEN [ev |-> ev, result |-> Raise("EvaluatorStateError")]
    ELSE IF preds.kind # "detections"
    THEN [ev |-> ev, result |-> Raise("TypeError")]
    ELSE IF Len(preds.dets) # Len(tgts)
    THEN [ev |-> ev, result |-> Raise("ShapeMismatchError")]
    ELSE [ev |-> [ev EXCEPT !.pairs = @ + Len(tgts)],
          result |-> [kind |-> "record", pairs |-> Len(tgts)]]

\* self.evaluator.compute()
finalize(ev) ==
    [ev |-> [ev EXCEPT !.state = "finalized"],
     result |-> [kind |-> "report", pairs |-> ev.pairs]]

\* Mutant of test_step: the evaluator is never called.
test_step_result_silent(ev, preds, tgts) == [ev |-> ev, result |-> None]

\* Lines 165-168, after the predictions are back.
test_step_result(ev, preds, tgts) ==
    IF preds.kind = "error" THEN [ev |-> ev, result |-> preds]
    ELSE IF ev = None THEN [ev |-> ev, result |-> Raise("TypeError")]
    ELSE LET a == accumulate(ev, preds, tgts)
         IN  [ev |-> a.ev, result |-> IF a.result.kind = "error" THEN a.result ELSE None]

\* ---------------------------------------------------------- data pipeline
\* Mutant of the getter: the default built on every read.
data_pipeline_eager(slot, n) ==
    [slot |-> DefaultPipeline(n + 1), n |-> n + 1, value |-> DefaultPipeline(n + 1)]

\* Lines 219-226: the getter; n counts the default pipelines built so far.
data_pipeline(slot, n) ==
    IF slot = None
    THEN [slot |-> DefaultPipeline(n + 1), n |-> n + 1, value |-> DefaultPipeline(n + 1)]
    ELSE [slot |-> slot, n |-> n, value |-> slot]

collate_fn(p, x) == [kind |-> "pair", images |-> x.images, targets |-> None, by |-> p]
uncollate_fn(p, predictions) == [kind |-> "uncollated", by |-> p, of |-> predictions]

\* What predict may be handed: raw data, or with skip_collate_fn an
\* (images, targets) pair or a plain list of images.
PredictInputs(skip) ==
    IF skip
    THEN {[kind |-> "pair", images |-> il, targets |-> None] : il \in ImageLists}
         \cup {[kind |-> "list", images |-> il] : il \in ImageLists}
    ELSE {[kind |-> "raw", images |-> il] : il \in ImageLists}

\* Line 205-206: a batch of length two that is a list or tuple is taken for
\* (images, targets); iterating a tensor yields its slices.
Unbind(img) == [k \in 1..img.shape[1] |-> [shape |-> Tail(img.shape)]]
batch_images(batch) ==
    IF batch.kind = "pair" THEN batch.images
    ELSE IF Len(batch.images) = 2 THEN Unbind(batch.images[1])
    ELSE batch.images

\* ------------------------------------------------------------------ state
VARIABLES
    training,              \* self.training
    _data_pipeline,        \* self._data_pipeline
    evaluator,             \* self.evaluator
    _has_warned,           \* self._has_warned
    n_default,             \* how many times default_pipeline() has run
    last_assigned,         \* the pipeline last given to the setter, or None
    pc,                    \* where the call in progress stands
    op,                    \* the operation called last
    scripting,             \* torch.jit.is_scripting() for this call
    inputs,                \* _forward_impl: inputs
    targets,               \* _forward_impl: targets
    batch_targets,         \* validation_step / test_step: the batch's targets
    override,              \* predict: the data_pipeline argument
    pipe,                  \* predict: the local data_pipeline
    slot0,                 \* predict: self._data_pipeline when it was called
    collated_by,           \* predict: the pipeline whose collate_fn ran
    original_image_sizes,  \* _forward_impl locals
    samples,
    outputs,
    losses,
    detections,
    pick,                  \* what the detector chose in this call
    trace,                 \* the stages this call went through
    ret,                   \* what _forward_impl returned or raised
    out                    \* what the operation returned or raised

instance == <<training, _data_pipeline, evaluator, _has_warned, n_default, last_assigned>>
call == <<op, scripting, inputs, batch_targets, override, pipe, slot0, collated_by>>
locals == <<targets, original_image_sizes, samples, outputs, losses, detections, pick,
            trace, ret>>
vars == <<instance, pc, call, locals, out>>

\* Lines 25-62: __init__, with or without an annotation_path.
Init ==
    /\ training = TRUE
    /\ _data_pipeline = None
    /\ evaluator \in {None, NewEvaluator}
    /\ _has_warned = FALSE
    /\ n_default = 0
    /\ last_assigned = None
    /\ pc = "idle"
    /\ op = "__init__"
    /\ scripting = FALSE
    /\ inputs = <<>>
    /\ targets = None
    /\ batch_targets = <<>>
    /\ override = None
    /\ pipe = None
    /\ slot0 = None
    /\ collated_by = None
    /\ original_image_sizes = <<>>
    /\ samples = None
    /\ outputs = None
    /\ losses = None
    /\ detections = None
    /\ pick = None
    /\ trace = <<>>
    /\ ret = None
    /\ out = None

\* Entry into _forward_impl(imgs, tgts) on behalf of operation o.
Enter(o, s, imgs, tgts, bt) ==
    /\ pc = "idle"
    /\ pc' = "sizes"
    /\ op' = o
    /\ scripting' = s
    /\ inputs' = imgs
    /\ targets' = tgts
    /\ batch_targets' = bt
    /\ original_image_sizes' = <<>>
    /\ samples' = None
    /\ outputs' = None
    /\ losses' = None
    /\ detections' = None
    /\ pick' = None
    /\ trace' = <<>>
    /\ ret' = None
    /\ out' = None

NoPredict ==
    /\ override' = None
    /\ pipe' = None
    /\ slot0' = None
    /\ collated_by' = None

TargetArgs(n) == {None, Targets(<<>>)} \cup {Targets(t) : t \in TargetLists(n)}

\* Lines 126-135.
forward ==
    \E imgs \in ImageLists, s \in BOOLEAN :
        \E tgts \in TargetArgs(Len(imgs)) :
            /\ Enter("forward", s, imgs, tgts, <<>>)
            /\ NoPredict
            /\ UNCHANGED instance

\* Line 141.
training_step ==
    \E imgs \in ImageLists :
        \E tgts \in TargetLists(Len(imgs)) :
            /\ Enter("training_step", FALSE, imgs, Targets(tgts), <<>>)
            /\ NoPredict
            /\ UNCHANGED instance

\* Lines 147-149.
validation_step ==
    \E imgs \in ImageLists, m \in 1..MaxImages :
        \E tgts \in TargetLists(m) :
            /\ Enter("validation_step", FALSE, imgs, None, tgts)
            /\ NoPredict
            /\ UNCHANGED instance

\* Lines 163-165.
test_step ==
    \E imgs \in ImageLists :
        \E tgts \in TargetLists(Len(imgs)) :
            /\ evaluator # None /\ evaluator.state = "open"
                   => evaluator.pairs + Len(imgs) <= MaxAccum
            /\ Enter("test_step", FALSE, imgs, None, tgts)
            /\ NoPredict
            /\ UNCHANGED instance

\* Lines 203-207.
predict ==
    \E skip \in BOOLEAN, dp \in Pipelines \cup {None} :
        \E x \in PredictInputs(skip) :
            LET got == data_pipeline(_data_pipeline, n_default)
                p == IF dp # None THEN dp ELSE got.value
                batch == IF skip THEN x ELSE collate_fn(p, x)
            IN  /\ Enter("predict", FALSE, batch_images(batch), None, <<>>)
                /\ override' = dp
                /\ pipe' = p
                /\ slot0' = _data_pipeline
                /\ collated_by' = IF skip THEN None ELSE p
                /\ _data_pipeline' = IF dp # None THEN _data_pipeline ELSE got.slot
                /\ n_default' = IF dp # None THEN n_default ELSE got.n
                /\ UNCHANGED <<training, evaluator, _has_warned, last_assigned>>

\* Lines 80-87.
sizes_step ==
    /\ pc = "sizes"
    /\ original_image_sizes' = record_sizes(training, inputs)
    /\ pc' = "transform"
    /\ UNCHANGED <<instance, call, out, targets, samples, outputs, losses, detections,
                   pick, trace, ret>>

\* Lines 89-92.
transform_step ==
    /\ pc = "transform"
    /\ LET tr == transform(inputs, targets)
       IN  IF tr.kind = "error"
           THEN /\ ret' = tr
                /\ pc' = "resume"
                /\ trace' = Append(trace, "transform")
                /\ UNCHANGED <<targets, samples, outputs, pick>>
           ELSE \E pk \in DetectorPicks(training, Len(inputs)) :
                    LET o == model(training, scripting, tr.samples.tensors, tr.targets, pk)
                    IN  /\ samples' = tr.samples
                        /\ targets' = tr.targets
                        /\ pick' = pk
                        /\ trace' = trace \o <<"transform", "detector">>
                        /\ IF o.kind = "error"
                           THEN ret' = o /\ pc' = "resume" /\ UNCHANGED outputs
                           ELSE outputs' = o /\ pc' = "branch" /\ UNCHANGED ret
    /\ UNCHANGED <<instance, call, out, original_image_sizes, losses, detections>>

\* Lines 94-105.
branch_step ==
    /\ pc = "branch"
    /\ LET b == branch(training, scripting, outputs, samples.image_sizes,
                       original_image_sizes)
       IN  /\ losses' = b.losses
           /\ detections' = b.detections
           /\ trace' = IF b.post THEN Append(trace, "postprocess") ELSE trace
           /\ IF b.raised # None
              THEN ret' = b.raised /\ pc' = "resume"
              ELSE pc' = "return" /\ UNCHANGED ret
    /\ UNCHANGED <<instance, call, out, targets, original_image_sizes, samples, outputs,
                   pick>>

\* Lines 107-113.
return_step ==
    /\ pc = "return"
    /\ ret' = return_value(training, scripting, losses, detections)
    /\ _has_warned' = (_has_warned \/ scripting)
    /\ trace' = Append(trace, "return")
    /\ pc' = "resume"
    /\ UNCHANGED <<training, _data_pipeline, evaluator, n_default, last_assigned, call, out,
                   targets, original_image_sizes, samples, outputs, losses, detections, pick>>

\* The caller's lines after _forward_impl: 135, 142-144, 150-153, 166-168,
\* 208-209.
resume ==
    /\ pc = "resume"
    /\ pc' = "done"
    /\ LET t == IF op = "test_step" THEN test_step_result(evaluator, ret, batch_targets)
                ELSE [ev |-> evaluator, result |-> None]
       IN  /\ evaluator' = t.ev
           /\ out' = CASE op = "forward" -> ret
                       [] op = "training_step" -> training_step_result(ret)
                       [] op = "validation_step" -> validation_step_result(batch_targets, ret)
                       [] op = "test_step" -> t.result
                       [] op = "predict" -> IF ret.kind = "error" THEN ret
                                            ELSE uncollate_fn(pipe, ret)
    /\ UNCHANGED <<training, _data_pipeline, _has_warned, n_default, last_assigned, call,
                   locals>>

\* The call is over: its locals are dropped with its frame.
call_end ==
    /\ pc = "done"
    /\ pc' = "idle"
    /\ scripting' = FALSE
    /\ inputs' = <<>>
    /\ targets' = None
    /\ batch_targets' = <<>>
    /\ NoPredict
    /\ original_image_sizes' = <<>>
    /\ samples' = None
    /\ outputs' = None
    /\ losses' = None
    /\ detections' = None
    /\ pick' = None
    /\ trace' = <<>>
    /\ ret' = None
    /\ out' = None
    /\ UNCHANGED <<instance, op>>

\* Lines 170-171: the report of compute() goes to self.log only; what is
\* returned is what self.log returns, None.
test_epoch_end ==
    /\ pc = "idle"
    /\ op' = "test_epoch_end"
    /\ IF evaluator = None
       THEN out' = Raise("AttributeError") /\ UNCHANGED evaluator
       ELSE LET f == finalize(evaluator)
            IN  evaluator' = f.ev /\ out' = None
    /\ UNCHANGED <<training, _data_pipeline, _has_warned, n_default, last_assigned, pc,
                   scripting, inputs, batch_targets, override, pipe, slot0, collated_by,
                   locals>>

\* evaluator.reset(), by the owner of the evaluation run.
evaluator_reset ==
    /\ pc = "idle"
    /\ evaluator # None
    /\ evaluator' = NewEvaluator
    /\ op' = "evaluator.reset"
    /\ out' = None
    /\ UNCHANGED <<training, _data_pipeline, _has_warned, n_default, last_assigned, pc,
                   scripting, inputs, batch_targets, override, pipe, slot0, collated_by,
                   locals>>

\* Lines 219-226: a read of the property.
data_pipeline_get ==
    /\ pc = "idle"
    /\ LET got == data_pipeline(_data_pipeline, n_default)
       IN  /\ _data_pipeline' = got.slot
           /\ n_default' = got.n
           /\ out' = got.value
    /\ op' = "data_pipeline.get"
    /\ UNCHANGED <<training, evaluator, _has_warned, last_assigned, pc,
                   scripting, inputs, batch_targets, override, pipe, slot0, collated_by,
                   locals>>

\* Lines 228-230: an assignment to the property.
data_pipeline_set ==
    /\ pc = "idle"
    /\ \E p \in Pipelines :
           /\ _data_pipeline' = p
           /\ last_assigned' = p
    /\ op' = "data_pipeline.set"
    /\ out' = None
    /\ UNCHANGED <<training, evaluator, _has_warned, n_default, pc,
                   scripting, inputs, batch_targets, override, pipe, slot0, collated_by,
                   locals>>

\* train(mode) / eval(), inherited from the framework's module class: the
\* flag the dispatcher reads. "anytime" lets another caller switch while a
\* call is in progress.
train(anytime) ==
    /\ anytime \/ pc = "idle"
    /\ \E mode \in BOOLEAN : training' = mode
    /\ UNCHANGED <<_data_pipeline, evaluator, _has_warned, n_default, last_assigned, pc,
                   call, locals, out>>

Steps == sizes_step \/ transform_step \/ branch_step \/ return_step \/ resume \/ call_end
Calls == forward \/ training_step \/ validation_step \/ test_step \/ predict
Others == test_epoch_end \/ evaluator_reset \/ data_pipeline_get \/ data_pipeline_set

\* One caller at a time: the mode is switched only between calls.
Next == Calls \/ Steps \/ Others \/ train(FALSE)
Spec == Init /\ [][Next]_vars

\* A second caller may switch the mode while a call is in progress.
NextConc == Calls \/ Steps \/ Others \/ train(TRUE)
SpecConc == Init /\ [][NextConc]_vars

\* ------------------------------------------------------------- claims
InTrace(x) == \E i \in 1..Len(trace) : trace[i] = x
Returned == pc = "done" /\ ret.kind # "error"
SizesOf(imgs) == [i \in 1..Len(imgs) |-> LastTwo(imgs[i].shape)]
Recorded == pc \in {"transform", "branch", "return", "resume", "done"}

\* C1: a dispatcher call made in training mode with no targets (absent or
\* empty) fails and returns no value. The claim names the error, ModeError;
\* asked here is only that the call raises at all.
C1_TrainingWithoutTargetsFails ==
    (pc = "done" /\ training /\ ~HasTargets(targets)) => ret.kind = "error"

\* C2, as claimed, for the eager calls that supply targets: whatever the
\* mode the instance was switched to, the call returns a loss mapping.
C2_TargetsSelectLosses ==
    (Returned /\ ~scripting /\ HasTargets(targets)) => ret.kind = "losses"

\* C2, amended: the branch follows the instance's training flag, not the
\* targets. With the flag set no postprocess runs and an eager call returns
\* the loss mapping; with the flag clear the detector's output goes through
\* postprocess and the call returns detections, targets or not.
C2_FlagSelectsBranch ==
    pc = "done" =>
        /\ training => /\ ~InTrace("postprocess")
                       /\ (ret.kind # "error" /\ ~scripting) => ret.kind = "losses"
        /\ (~training /\ outputs # None) =>
               /\ InTrace("postprocess")
               /\ ret.kind # "error" => ret.kind = "detections"

C2_Witness ==
    /\ Returned /\ ~training /\ ~scripting
    /\ HasTargets(targets)
    /\ ret.kind = "detections"
    /\ InTrace("postprocess")

\* C3: a call with training false runs transform, detector, postprocess
\* and return in this order, and what it returns (to the caller of forward
\* and, through uncollate_fn, of predict) is postprocess applied to what the
\* detector produced in this call.
C3_EvalReturnsPostprocessed ==
    (Returned /\ ~training) =>
        /\ trace = <<"transform", "detector", "postprocess", "return">>
        /\ ret = postprocess(List(pick.raw),
                             [i \in 1..Len(inputs) |->
                                 ResizedSize(inputs[i].shape[2], inputs[i].shape[3])],
                             SizesOf(inputs))
        /\ op = "forward" => out = ret
        /\ op = "predict" => out = uncollate_fn(pipe, ret)

C3_Witness ==
    /\ Returned /\ ~training /\ op = "predict"
    /\ ret.kind = "detections"
    /\ ret # List(pick.raw)
    /\ out.of = ret

\* C4: at the return point at most one of the loss mapping and the
\* detection list is populated, and a call with training false does not
\* return a loss mapping.
C4_OutputsExclusive ==
    pc \in {"return", "resume", "done"} =>
        /\ ~(losses \notin {None, Dict({})} /\ detections \notin {None, List(<<>>)})
        /\ (pc = "done" /\ ~training) => ret.kind # "losses"

C4_Witness ==
    /\ Returned /\ ~training
    /\ detections # List(<<>>)
    /\ losses = Dict({})
    /\ ret = detections

\* C5: a call the dispatcher's contract allows (targets supplied when in
\* training mode) returns what the same call, with the same inputs,
\* targets, mode and detector behaviour, returns in the other execution
\* mode (scripted against eager).
C5_ScriptedEqualsEager ==
    (pc = "done" /\ op = "forward" /\ pick # None /\ (training => HasTargets(targets))) =>
        ret = _forward_impl(training, ~scripting, inputs, targets, pick)

\* C6: a test_step whose accumulate call reaches an evaluator that was
\* finalized and not reset since fails with EvaluatorStateError.
C6_AccumulateAfterFinalizeFails ==
    (Returned /\ op = "test_step" /\ evaluator # None /\ evaluator.state = "finalized")
        => out = Raise("EvaluatorStateError")

C6_Witness ==
    /\ Returned /\ op = "test_step"
    /\ evaluator # None /\ evaluator.state = "finalized" /\ evaluator.pairs > 0
    /\ out = Raise("EvaluatorStateError")

\* C7, as claimed: in either mode the sizes recorded before the transform
\* are those of the N input images.
C7_SizesRecordedInEveryMode ==
    Recorded => original_image_sizes = SizesOf(inputs)

\* C7, amended: with training false the list recorded before the transform
\* has one entry per input image, the image's last two dimensions; with
\* training true nothing is recorded and the list stays empty.
C7_SizesRecordedOutsideTraining ==
    Recorded =>
        IF training
        THEN original_image_sizes = <<>>
        ELSE /\ Len(original_image_sizes) = Len(inputs)
             /\ \A i \in 1..Len(inputs) :
                    original_image_sizes[i] = <<inputs[i].shape[Len(inputs[i].shape) - 1],
                                                inputs[i].shape[Len(inputs[i].shape)]>>

C7_Witness ==
    /\ pc = "transform" /\ ~training
    /\ Len(inputs) = 2
    /\ original_image_sizes = <<<<480, 640>>, <<300, 300>>>>

\* C8: a validation batch whose targets and detections differ in number
\* makes validation_step fail with ShapeMismatchError.
C8_MismatchFails ==
    (pc = "done" /\ op = "validation_step" /\ ret.kind = "detections"
        /\ Len(batch_targets) # Len(ret.dets))
        => out = Raise("ShapeMismatchError")

\* C9: a read of data_pipeline returns the pipeline assigned last, or else
\* the default, which is built once; predict with an override uses it to
\* collate and to uncollate and leaves the stored pipeline as it was.
C9_PipelineSlot ==
    /\ n_default <= 1
    /\ (pc = "idle" /\ op = "data_pipeline.get") =>
           out = IF last_assigned # None THEN last_assigned ELSE DefaultPipeline(1)
    /\ (pc # "idle" /\ op = "predict" /\ override # None) =>
           /\ pipe = override
           /\ collated_by \in {None, override}
           /\ _data_pipeline = slot0
           /\ Returned => out = uncollate_fn(override, ret)
    /\ (pc # "idle" /\ op = "predict" /\ override = None) =>
           pipe = IF last_assigned # None THEN last_assigned ELSE DefaultPipeline(1)

C9_Witness ==
    /\ pc = "idle" /\ op = "data_pipeline.get"
    /\ n_default = 1
    /\ last_assigned # None
    /\ out = last_assigned

\* C10: also with a mode switch interleaved, in a call that supplies
\* targets (which either mode accepts) postprocess gets one original size
\* per input image, and an eager call returns what the taken branch
\* populated, never the empty default.
C10_ModeReadsConsistent ==
    HasTargets(targets) =>
        /\ InTrace("postprocess") => Len(original_image_sizes) = Len(inputs)
        /\ (Returned /\ ~scripting) => ret \notin {Dict({}), List(<<>>)}
====
